---------------------------- MODULE Spec2Model ----------------------------
(***************************************************************************)
(* A model of hiera/client.py: HieraClient, a wrapper that builds a hiera  *)
(* command line, runs it as a child process and classifies the outcome.    *)
(*                                                                         *)
(* The module is Python 2 code (dict.iteritems, ex.message, and            *)
(* `from __future__ import unicode_literals`), so it is modelled with      *)
(* Python 2 semantics: string literals of the module are unicode objects,  *)
(* the captured output of a child process is a byte string (str), and      *)
(* formatting a byte string into a unicode template decodes it as ASCII.   *)
(*                                                                         *)
(* Caller-supplied strings (paths, key names, variable names and values)   *)
(* are text tokens; the child's output is a sequence of bytes, because the *)
(* code works on it byte by byte (strip).                                  *)
(***************************************************************************)
EXTENDS Integers, Sequences, FiniteSets, TLC

VARIABLES
    fs,         \* the paths that are regular files now (os.path.isfile)
    installed,  \* the binaries the operating system can execute now
    tool,       \* what the hiera tool does now when run: exit code and output
    heap,       \* the dict objects: reference -> sequence of <<name, value>>
                \* in the dict's iteration order
    clients,    \* the caller's HieraClient objects (NoClient: not constructed)
    last,       \* the last operation of the caller and how it ended
    calls       \* at most one earlier get call, kept to compare later ones with

vars == <<fs, installed, tool, heap, clients, last, calls>>

-----------------------------------------------------------------------------
(* Bounds *)

MaxOut == 4      \* longest output of the child process, in bytes
MaxVars == 2     \* most entries of a hiera_vars dict

-----------------------------------------------------------------------------
(* The values the caller and the environment supply *)

ConfigFile == "hiera.yaml"          \* a path that is a regular file, or absent
ConfigDir == "/etc/hiera"           \* a path that exists and is a directory
ConfigPaths == {ConfigFile, ConfigDir, "missing.yaml"}
HieraBinary == "hiera"              \* the default of hiera_binary
Binaries == {HieraBinary, "/opt/missing/hiera"}
Keys == {"some_key", "other_key"}
VarNames == {"environment", "osfamily", "::facter_key"}
VarValues == {"developer", "Debian"}
Clients == {"a", "b"}

NonAscii == "0xE9"                  \* a byte >= 0x80
Whitespace == {" ", "\n"}           \* bytes str.strip() removes
Byte == Whitespace \cup {"a", NonAscii}
ExitCodes == {0, 1, 2}

RECURSIVE ByteStrings(_)
ByteStrings(n) ==
    IF n = 0 THEN {<<>>}
    ELSE LET shorter == ByteStrings(n - 1)
         IN  shorter \cup {Append(s, b) : s \in {t \in shorter : Len(t) = n - 1}, b \in Byte}

\* the default argument `hiera_vars = {}`: one dict object, created when the
\* def statement runs, and handed to every call that omits the argument
DefaultVars == "default_vars"
CallerVars == "caller_vars"         \* a dict object the caller owns
Refs == {DefaultVars, CallerVars}

NoClient == [kind |-> "NoClient"]

-----------------------------------------------------------------------------
(* Python values and outcomes *)

Text(t) == [type |-> "unicode", v |-> t]
Str(b) == [type |-> "str", v |-> b]
Number(n) == [type |-> "int", v |-> n]

None == [kind |-> "None"]
Return(value) == [kind |-> "return", value |-> value]
Raise(cls, message) == [kind |-> "raise", cls |-> cls, message |-> message]

ConfigMessage == "Hiera configuration file does not exist at: {0}"
NotFoundMessage == "Could not find hiera binary at: {0}"
FailedMessage ==
    "Failed to retrieve key {0}. exit code: {1} message: {2} console output: {3}"

IsAscii(b) == \A i \in 1..Len(b) : b[i] # NonAscii

\* unicode.format: a byte-string argument is decoded with the ASCII codec
Format(template, args) ==
    IF \E i \in 1..Len(args) : args[i].type = "str" /\ ~IsAscii(args[i].v)
    THEN [raised |-> "UnicodeDecodeError",
          template |-> "'ascii' codec can't decode byte", args |-> <<>>]
    ELSE [raised |-> "", template |-> template, args |-> args]

\* `raise cls(template.format(*args))`
RaiseFormatted(cls, template, args) ==
    LET m == Format(template, args)
    IN  IF m.raised # "" THEN Raise(m.raised, m) ELSE Raise(cls, m)

-----------------------------------------------------------------------------
(* hiera/client.py *)

\* os.path.isfile
isfile(path) == path \in fs

\* _validate with os.path.exists for os.path.isfile: a directory passes
_validate_exists(self) ==
    IF ~(isfile(self.config_filename) \/ self.config_filename = ConfigDir)
    THEN RaiseFormatted("HieraError", ConfigMessage, <<Text(self.config_filename)>>)
    ELSE None

\* _validate raising the other exception class of hiera.exc
_validate_not_found(self) ==
    IF ~isfile(self.config_filename)
    THEN RaiseFormatted("HieraNotFoundError", ConfigMessage,
                        <<Text(self.config_filename)>>)
    ELSE None

\* HieraClient._validate: the outcome of the call
_validate(self) ==
    IF ~isfile(self.config_filename)
    THEN RaiseFormatted("HieraError", ConfigMessage, <<Text(self.config_filename)>>)
    ELSE None

\* __init__ that also looks for the binary
__init__checks_binary(config_filename, hiera_binary, hiera_vars) ==
    LET self == [config_filename |-> config_filename,
                 hiera_binary |-> hiera_binary,
                 hiera_vars |-> hiera_vars]
        checked == _validate(self)
    IN  IF checked.kind = "raise"
        THEN [spawned |-> <<>>, result |-> checked]
        ELSE IF hiera_binary \notin installed
        THEN [spawned |-> <<>>,
              result |-> RaiseFormatted("HieraNotFoundError", NotFoundMessage,
                                        <<Text(hiera_binary)>>)]
        ELSE [spawned |-> <<>>, result |-> Return(self)]

\* HieraClient.__init__: the attributes are set, then validated; `spawned` lists
\* the child processes the call started
__init__(config_filename, hiera_binary, hiera_vars) ==
    LET self == [config_filename |-> config_filename,
                 hiera_binary |-> hiera_binary,
                 hiera_vars |-> hiera_vars]
        checked == _validate(self)
    IN  IF checked.kind = "raise"
        THEN [spawned |-> <<>>, result |-> checked]
        ELSE [spawned |-> <<>>, result |-> Return(self)]

\* the token as the docstring of __init__ prints it: key='value'
TokenQuoted(key, value) == key \o "='" \o value \o "'"

\* "%s=%s" % (key, value)
Token(key, value) == key \o "=" \o value

\* the for loop of _command over hiera_vars.iteritems(), from entry i on
RECURSIVE AppendVars(_, _, _)
AppendVars(cmd, items, i) ==
    IF i > Len(items) THEN cmd
    ELSE AppendVars(Append(cmd, Token(items[i][1], items[i][2])), items, i + 1)

\* HieraClient._command
_command(self, key_name) ==
    LET cmd == <<self.hiera_binary, "--config", self.config_filename, key_name>>
        hiera_vars == heap[self.hiera_vars]
    IN  IF hiera_vars # <<>> THEN AppendVars(cmd, hiera_vars, 1) ELSE cmd

\* subprocess.check_output(cmd, stderr=subprocess.STDOUT): OSError when cmd[1]
\* cannot be executed, CalledProcessError on a nonzero exit, else the output
check_output(cmd) ==
    IF cmd[1] \notin installed
    THEN [status |-> "OSError", returncode |-> -1, output |-> <<>>]
    ELSE IF tool.returncode # 0
    THEN [status |-> "CalledProcessError", returncode |-> tool.returncode,
          output |-> tool.output]
    ELSE [status |-> "ok", returncode |-> 0, output |-> tool.output]

RECURSIVE lstrip(_)
lstrip(s) == IF s # <<>> /\ Head(s) \in Whitespace THEN lstrip(Tail(s)) ELSE s

RECURSIVE rstrip(_)
rstrip(s) ==
    IF s # <<>> /\ s[Len(s)] \in Whitespace THEN rstrip(SubSeq(s, 1, Len(s) - 1)) ELSE s

\* lstrip for strip
strip_left(s) == lstrip(s)

\* str.strip()
strip(s) == rstrip(lstrip(s))

\* HieraClient._hiera
_hiera(self, key_name) ==
    LET hiera_command == _command(self, key_name)
        ex == check_output(hiera_command)
        result ==
            CASE ex.status = "OSError" ->
                   RaiseFormatted("HieraNotFoundError", NotFoundMessage,
                                  <<Text(self.hiera_binary)>>)
              [] ex.status = "CalledProcessError" ->
                   \* ex.message is '' (BaseException.message, never set by
                   \* CalledProcessError), ex.output the byte string captured
                   RaiseFormatted("HieraError", FailedMessage,
                                  <<Text(key_name), Number(ex.returncode), Text(""),
                                    Str(ex.output)>>)
              [] OTHER ->
                   LET value == strip(ex.output)
                   IN  IF value = <<>> THEN None ELSE Return(value)
    IN  [spawned |-> <<hiera_command>>, self |-> self, result |-> result]

\* get that validates the configuration file again before the lookup
get_revalidating(self, key_name) ==
    IF _validate(self).kind = "raise"
    THEN [spawned |-> <<>>, self |-> self, result |-> _validate(self)]
    ELSE _hiera(self, key_name)

\* get that answers from the value the previous lookup of the key returned
get_memo(self, key_name) ==
    IF last.op = "get" /\ last.key = key_name /\ last.result.kind = "return"
    THEN [spawned |-> <<>>, self |-> self, result |-> last.result]
    ELSE _hiera(self, key_name)

\* HieraClient.get
get(self, key_name) == _hiera(self, key_name)

-----------------------------------------------------------------------------
(* The caller's operations *)

\* c = HieraClient(config_filename, hiera_binary, hiera_vars); hiera_vars =
\* DefaultVars is the call that omits the argument. A constructor that raises
\* binds nothing.
Construct(c, config_filename, hiera_binary, hiera_vars) ==
    /\ clients[c] = NoClient
    /\ LET r == __init__(config_filename, hiera_binary, hiera_vars)
       IN  /\ clients' = IF r.result.kind = "return"
                         THEN [clients EXCEPT ![c] = r.result.value]
                         ELSE clients
           /\ last' = [op |-> "init", client |-> c,
                       args |-> [config_filename |-> config_filename,
                                 hiera_binary |-> hiera_binary,
                                 hiera_vars |-> hiera_vars],
                       isfile |-> config_filename \in fs,
                       spawned |-> r.spawned, result |-> r.result]
    /\ UNCHANGED <<fs, installed, tool, heap, calls>>

\* what a get call of client c for key_name leaves in `last`: the client's
\* attributes and the environment as they were when it was called
GetRecord(c, key_name, r) ==
    [op |-> "get", client |-> c, key |-> key_name, self |-> clients[c],
     items |-> heap[clients[c].hiera_vars],
     isfile |-> clients[c].config_filename \in fs,
     found |-> clients[c].hiera_binary \in installed,
     returncode |-> tool.returncode, output |-> tool.output,
     spawned |-> r.spawned, after |-> r.self, result |-> r.result]

\* two get calls of one client, with the same key and the same environment
SameCall(x, y) ==
    /\ x.client = y.client /\ x.self = y.self /\ x.key = y.key
    /\ x.items = y.items /\ x.isfile = y.isfile /\ x.found = y.found
    /\ x.returncode = y.returncode /\ x.output = y.output

\* c.get(key_name); when a call is being remembered and this one repeats it,
\* it is kept beside it
Get(c, key_name) ==
    /\ clients[c] # NoClient
    /\ LET r == get(clients[c], key_name)
           rec == GetRecord(c, key_name, r)
       IN  /\ clients' = [clients EXCEPT ![c] = r.self]
           /\ last' = rec
           /\ calls' = IF calls # <<>> /\ SameCall(rec, calls[1])
                       THEN <<calls[1], rec>> ELSE calls
    /\ UNCHANGED <<fs, installed, tool, heap>>

\* c.get(key_name), a call that later calls are compared with
GetRemembered(c, key_name) ==
    /\ clients[c] # NoClient
    /\ calls = <<>>
    /\ LET r == get(clients[c], key_name)
       IN  /\ clients' = [clients EXCEPT ![c] = r.self]
           /\ last' = GetRecord(c, key_name, r)
           /\ calls' = <<GetRecord(c, key_name, r)>>
    /\ UNCHANGED <<fs, installed, tool, heap>>

\* c._command(key_name)
Command(c, key_name) ==
    /\ clients[c] # NoClient
    /\ last' = [op |-> "command", client |-> c, key |-> key_name,
                self |-> clients[c], items |-> heap[clients[c].hiera_vars],
                result |-> _command(clients[c], key_name)]
    /\ UNCHANGED <<fs, installed, tool, heap, clients, calls>>

\* dict.__setitem__: a present key keeps its place, a new key lands anywhere
\* in the iteration order
SetItem(d, name, value, pos) ==
    IF \E i \in 1..Len(d) : d[i][1] = name
    THEN [i \in 1..Len(d) |-> IF d[i][1] = name THEN <<name, value>> ELSE d[i]]
    ELSE SubSeq(d, 1, pos - 1) \o <<<<name, value>>>> \o SubSeq(d, pos, Len(d))

\* c.hiera_vars[name] = value, by the caller
SetVar(c, name, value) ==
    /\ clients[c] # NoClient
    /\ LET ref == clients[c].hiera_vars
           d == heap[ref]
       IN  /\ (\E i \in 1..Len(d) : d[i][1] = name) \/ Len(d) < MaxVars
           /\ \E pos \in 1..(Len(d) + 1) :
                 heap' = [heap EXCEPT ![ref] = SetItem(d, name, value, pos)]
           /\ last' = [op |-> "setvar", client |-> c, name |-> name, value |-> value]
    /\ UNCHANGED <<fs, installed, tool, clients, calls>>

-----------------------------------------------------------------------------
(* The environment *)

\* the configuration file is deleted or created
ConfigFileChanges ==
    /\ fs' = IF ConfigFile \in fs THEN fs \ {ConfigFile} ELSE fs \cup {ConfigFile}
    /\ UNCHANGED <<installed, tool, heap, clients, last, calls>>

\* the hiera binary is removed or installed
BinaryChanges ==
    /\ installed' = IF HieraBinary \in installed THEN installed \ {HieraBinary}
                    ELSE installed \cup {HieraBinary}
    /\ UNCHANGED <<fs, tool, heap, clients, last, calls>>

\* the hierarchy's data changes: the tool answers t from now on
ToolChanges(t) ==
    /\ t # tool
    /\ tool' = t
    /\ UNCHANGED <<fs, installed, heap, clients, last, calls>>

-----------------------------------------------------------------------------
(* Specifications *)

NoOp == [op |-> "none"]
NoClients == [c \in Clients |-> NoClient]

SampleOutputs == {<<>>, <<" ", "a", "\n">>, <<NonAscii, "\n">>}
SampleTools == [returncode : ExitCodes, output : SampleOutputs]
SampleHeap == [r \in Refs |-> IF r = DefaultVars THEN <<>>
                              ELSE <<<<"environment", "developer">>>>]

\* The client's life: construction, lookups, and a changing environment.
Init ==
    /\ fs = {ConfigFile}
    /\ installed = {HieraBinary}
    /\ tool \in SampleTools
    /\ heap = SampleHeap
    /\ clients = NoClients
    /\ last = NoOp
    /\ calls = <<>>

Next ==
    \/ \E c \in Clients, f \in ConfigPaths, b \in Binaries, v \in Refs : Construct(c, f, b, v)
    \/ \E c \in Clients, k \in Keys : Get(c, k)
    \/ ConfigFileChanges
    \/ BinaryChanges
    \/ \E t \in SampleTools : ToolChanges(t)

Spec == Init /\ [][Next]_vars

\* Lookups of one client while the binary and the hierarchy's data change;
\* one call is remembered and a later call that repeats it is kept beside it.
IdemTools == {[returncode |-> 0, output |-> <<" ", "a", "\n">>],
              [returncode |-> 1, output |-> <<"a", "\n">>]}

InitIdem ==
    /\ fs = {ConfigFile}
    /\ installed = {HieraBinary}
    /\ tool \in IdemTools
    /\ heap = SampleHeap
    /\ clients = NoClients
    /\ last = NoOp
    /\ calls = <<>>

NextIdem ==
    \/ \E c \in Clients, b \in Binaries, v \in Refs : Construct(c, ConfigFile, b, v)
    \/ \E c \in Clients, k \in Keys : Get(c, k)
    \/ \E c \in Clients, k \in Keys : GetRemembered(c, k)
    \/ BinaryChanges
    \/ \E t \in IdemTools : ToolChanges(t)

SpecIdem == InitIdem /\ [][NextIdem]_vars

\* Lookups against every output the tool can print, up to MaxOut bytes.
OutputTools == [returncode : {0, 1}, output : ByteStrings(MaxOut)]

InitOutput ==
    /\ fs = {ConfigFile}
    /\ installed = {HieraBinary}
    /\ tool \in OutputTools
    /\ heap = SampleHeap
    /\ clients = NoClients
    /\ last = NoOp
    /\ calls = <<>>

NextOutput ==
    \/ \E b \in Binaries, v \in Refs : Construct("a", ConfigFile, b, v)
    \/ \E k \in Keys : Get("a", k)

SpecOutput == InitOutput /\ [][NextOutput]_vars

\* Two clients, their hiera_vars dicts changed by the caller, and the
\* command lines they build.
InitVars ==
    /\ fs = {ConfigFile}
    /\ installed = {HieraBinary}
    /\ tool = [returncode |-> 0, output |-> <<>>]
    /\ heap = [r \in Refs |-> <<>>]
    /\ clients = NoClients
    /\ last = NoOp
    /\ calls = <<>>

NextVars ==
    \/ \E c \in Clients, f \in ConfigPaths, v \in Refs : Construct(c, f, HieraBinary, v)
    \/ \E c \in Clients, n \in VarNames, v \in VarValues : SetVar(c, n, v)
    \/ \E c \in Clients, k \in Keys : Command(c, k)

SpecVars == InitVars /\ [][NextVars]_vars

-----------------------------------------------------------------------------
(* Properties *)

IsOperation == last.op \in {"init", "get"}
Raised == IsOperation /\ last.result.kind = "raise"
MessageIs(template) == Raised /\ last.result.message.template = template

\* the three failures the specification names
IsConfigError(r) == r.kind = "raise" /\ r.message.template = ConfigMessage
IsNotFound(r) == r.kind = "raise" /\ r.message.template = NotFoundMessage
IsLookupFailed(r) == r.kind = "raise" /\ r.message.template = FailedMessage

\* C1: constructing a client whose config_filename is not an existing regular
\* file raises the configuration error carrying the path, whatever
\* hiera_binary and hiera_vars are; the client is not bound and no child
\* process is spawned.
C1_ConfigError ==
    (last.op = "init" /\ ~last.isfile) =>
        /\ last.result =
             Raise("HieraError",
                   [raised |-> "", template |-> ConfigMessage,
                    args |-> <<Text(last.args.config_filename)>>])
        /\ last.spawned = <<>>
        /\ clients[last.client] = NoClient

C1_Witness ==
    /\ last.op = "init" /\ ~last.isfile /\ last.result.kind = "raise"
    /\ last.args.config_filename = ConfigDir
    /\ last.args.hiera_binary # HieraBinary /\ last.args.hiera_vars = CallerVars

\* C2: the vector _command builds is binary, "--config", config file, key,
\* then one name=value token per entry of hiera_vars, in the dict's iteration
\* order, none left out and none twice; four elements when the dict is empty.
C2_Command ==
    last.op = "command" =>
        LET argv == last.result
            d == last.items
        IN  /\ Len(argv) = 4 + Len(d)
            /\ argv[1] = last.self.hiera_binary
            /\ argv[2] = "--config"
            /\ argv[3] = last.self.config_filename
            /\ argv[4] = last.key
            /\ \A i \in 1..Len(d) : argv[4 + i] = d[i][1] \o "=" \o d[i][2]

C2_Witness ==
    /\ last.op = "command" /\ Len(last.items) = 2
    /\ last.result[5] = "::facter_key=Debian" /\ last.result[6] = "environment=developer"

\* the output without its leading and trailing whitespace, by positions
NonWhite(s) == {i \in 1..Len(s) : s[i] \notin Whitespace}
Trimmed(s) ==
    IF NonWhite(s) = {} THEN <<>>
    ELSE SubSeq(s, CHOOSE i \in NonWhite(s) : \A j \in NonWhite(s) : i <= j,
                   CHOOSE i \in NonWhite(s) : \A j \in NonWhite(s) : i >= j)

\* C3: when the child exits with code 0, get does not raise: it returns None
\* when the output is empty or all whitespace, and otherwise the output
\* without its leading and trailing whitespace, the inner bytes untouched;
\* it never returns an empty string.
C3_Success ==
    (last.op = "get" /\ last.found /\ last.returncode = 0) =>
        /\ last.result.kind # "raise"
        /\ NonWhite(last.output) = {} => last.result = None
        /\ NonWhite(last.output) # {} => last.result = Return(Trimmed(last.output))
        /\ last.result # Return(<<>>)

C3_Witness ==
    /\ last.op = "get" /\ last.returncode = 0
    /\ last.output = <<" ", "a", " ", "a">>
    /\ last.result = Return(<<"a", " ", "a">>)

\* C4: when the child runs and exits with a nonzero code, get raises the
\* lookup-failed error (HieraError), which carries the key, the exit code and
\* the captured output as the process produced them.
C4_LookupFailed ==
    (last.op = "get" /\ last.found /\ last.returncode # 0) =>
        /\ last.result.kind = "raise"
        /\ last.result.cls = "HieraError"
        /\ last.result.message.template = FailedMessage
        /\ last.result.message.args[1].v = last.key
        /\ last.result.message.args[2].v = last.returncode
        /\ last.result.message.args[4].v = last.output

\* C5: when the binary cannot be executed, get raises the tool-not-found error
\* carrying the hiera_binary the client was constructed with; construction
\* does not look for the binary, and succeeds whenever the configuration file
\* is there.
C5_NotFound ==
    /\ (last.op = "get" /\ ~last.found) =>
          last.result =
             Raise("HieraNotFoundError",
                   [raised |-> "", template |-> NotFoundMessage,
                    args |-> <<Text(last.self.hiera_binary)>>])
    /\ (last.op = "init" /\ last.isfile) => last.result = Return(last.args)

C5_Witness ==
    /\ last.op = "get" /\ ~last.found
    /\ last.self.hiera_binary = "/opt/missing/hiera"
    /\ last.result.kind = "raise"
    /\ last.result.message.args = <<Text("/opt/missing/hiera")>>

C7_OneProcessOneOutcome ==
    last.op = "get" =>
        /\ Len(last.spawned) = 1
        /\ \/ last.result.kind \in {"return", "None"}
           \/ (IsNotFound(last.result) /\ last.result.cls = "HieraNotFoundError")
           \/ (IsLookupFailed(last.result) /\ last.result.cls = "HieraError")

\* C8: a get call, however it ends, leaves config_filename, hiera_binary and
\* hiera_vars of the client as they were, and never raises the configuration
\* error: the configuration file is looked at by the constructor only.
C8_Frame ==
    last.op = "get" =>
        /\ last.after = last.self
        /\ clients[last.client] = last.self
        /\ ~IsConfigError(last.result)

C8_Witness ==
    /\ last.op = "get" /\ ~last.isfile
    /\ last.result.kind = "return"
    /\ clients[last.client] = last.self

C10_NoLeak ==
    [][\A c \in Clients, d \in Clients, n \in VarNames, v \in VarValues, k \in Keys :
         (/\ SetVar(c, n, v)
          /\ c # d
          /\ clients[c] # NoClient /\ clients[d] # NoClient
          /\ clients[c].hiera_vars = DefaultVars
          /\ clients[d].hiera_vars = DefaultVars
          /\ heap[DefaultVars] = <<>>)
         => (_command(clients[d], k))' =
               <<clients[d].hiera_binary, "--config", clients[d].config_filename, k>>]_vars

=============================================================================
